---- MODULE Spec2Model ----
(***************************************************************************)
(* The vesting ledger of src/lib.rs (ink! contract `Vesting`): the storage *)
(* struct, its six messages, its three queries and calculate_balances.     *)
(* Every message runs to completion before the next one starts, so each    *)
(* message is one action.  A Rust panic inside a message traps the         *)
(* contract: the host reverts the storage and drops the events of the      *)
(* call.                                                                   *)
(***************************************************************************)
EXTENDS Integers, Sequences, FiniteSets, TLC

\* ------------------------------------------------------------------ bounds
\* A run is at most MaxCalls messages long.
MaxCalls == 5
\* total_vested_schedule (u8) ranges over 0..MaxSchedule.
MaxSchedule == 2
\* original_balance (u128) ranges over {MaxAmount - 1, MaxAmount}: with the
\* schedule counts above, one of them is divided evenly and one is not.
MaxAmount == 3

\* AccountId is an opaque value the contract only compares for equality, with
\* vesting_owner and with a balance's address.  Two accounts give every
\* combination of "is the owner" and "is the balance's address".
Accounts == {1, 2}
ScheduleCounts == 0..MaxSchedule
\* schedule_number arguments: every stored number, 0 and one past the end.
ScheduleNumbers == 0..(MaxSchedule + 1)
Amounts == {MaxAmount - 1, MaxAmount}
\* asset_id arguments; 0 is what the default constructor installs.
AssetIds == {0, 7}
\* tx_hash arguments (Vec<u8>): the empty vector and a one-byte vector.
TxHashes == {<<>>, <<171>>}

\* ------------------------------------------------------- the status codes
Frozen == 0
Liquid == 1
Requested == 2
Transferred == 3

\* Option<AccountId>
None == <<>>
Some(a) == <<a>>

\* VestingStatus
EmitSuccess(s) == <<"EmitSuccess", s>>
EmitError(e) == <<"EmitError", e>>

\* VestingEvent
VestingEvent(operator, status) == [operator |-> operator, status |-> status]

VARIABLES
    asset_id,               \* Vesting.asset_id
    total_vested_schedule,  \* Vesting.total_vested_schedule
    vested_balances,        \* Vesting.vested_balances, a Vec: a sequence
    vesting_owner,          \* Vesting.vesting_owner
    events,                 \* the events the last message emitted, in order
    result,                 \* how the last message ended: "Ok" or "Trap"
    calls,                  \* the number of messages sent so far
    msg                     \* the last message sent: its name and its caller

ledger == <<asset_id, total_vested_schedule, vested_balances, vesting_owner>>
vars == <<asset_id, total_vested_schedule, vested_balances, vesting_owner, events, result, calls, msg>>

\* ----------------------------------------------------------------- helpers
\* Sum of schedule_balance over the schedules with status st, in Vec order.
\* The u128 additions cannot overflow: the n schedules of a balance hold
\* original_balance / n each, at most original_balance together.
RECURSIVE StatusSum(_, _)
StatusSum(schedules, st) ==
    IF schedules = <<>> THEN 0
    ELSE LET s == Head(schedules)
         IN (IF s.status = st THEN s.schedule_balance ELSE 0)
                + StatusSum(Tail(schedules), st)

\* Mutant of calculate_balances: the four totals are not reset first.
calculate_balances_NoReset(vb) ==
    [vb EXCEPT !.frozen_balance = @ + StatusSum(vb.vested_balance_schedules, Frozen),
               !.liquid_balance = @ + StatusSum(vb.vested_balance_schedules, Liquid),
               !.requested_balance = @ + StatusSum(vb.vested_balance_schedules, Requested),
               !.transferred_balance = @ + StatusSum(vb.vested_balance_schedules, Transferred)]

\* calculate_balances: the four totals are reset and recounted from the
\* schedules.  A status outside 0..3 is counted nowhere.
calculate_balances(vb) ==
    [vb EXCEPT !.frozen_balance = StatusSum(vb.vested_balance_schedules, Frozen),
               !.liquid_balance = StatusSum(vb.vested_balance_schedules, Liquid),
               !.requested_balance = StatusSum(vb.vested_balance_schedules, Requested),
               !.transferred_balance = StatusSum(vb.vested_balance_schedules, Transferred)]

\* iter().position(|v| v.address == address): the first index, 0 for None.
PositionOf(balances, address) ==
    IF \E i \in 1..Len(balances) : balances[i].address = address
    THEN CHOOSE i \in 1..Len(balances) :
            /\ balances[i].address = address
            /\ \A j \in 1..(i - 1) : balances[j].address # address
    ELSE 0

\* iter_mut().find(|s| s.schedule_number == n): the first index, 0 for None.
SchedulePositionOf(schedules, n) ==
    IF \E i \in 1..Len(schedules) : schedules[i].schedule_number = n
    THEN CHOOSE i \in 1..Len(schedules) :
            /\ schedules[i].schedule_number = n
            /\ \A j \in 1..(i - 1) : schedules[j].schedule_number # n
    ELSE 0

\* Mutant of SwapRemove: the last element is popped, whatever the index.
SwapRemove_Pop(balances, index) ==
    SubSeq(balances, 1, Len(balances) - 1)

\* Vec::swap_remove(index): the last element takes the removed one's place.
SwapRemove(balances, index) ==
    LET last == Len(balances)
    IN  [i \in 1..(last - 1) |-> IF i = index THEN balances[last] ELSE balances[i]]

\* Mutant of NewSchedules: the loop runs over 0..n instead of 1..=n.
NewSchedules_FromZero(n, schedule_balance) ==
    [i \in 1..n |-> [schedule_number |-> i - 1,
                     schedule_balance |-> schedule_balance,
                     status |-> Frozen,
                     recipient_address |-> None,
                     particulars |-> <<>>]]

\* The schedules add_vested_balance builds: numbers 1..=n, all Frozen.
NewSchedules(n, schedule_balance) ==
    [i \in 1..n |-> [schedule_number |-> i,
                     schedule_balance |-> schedule_balance,
                     status |-> Frozen,
                     recipient_address |-> None,
                     particulars |-> <<>>]]

\* Mutant of NewVestedBalance: every schedule gets the whole amount.
NewVestedBalance_NoDivision(address, original_balance, n) ==
    [address |-> address,
     vested_balance_schedules |-> NewSchedules(n, original_balance),
     original_balance |-> original_balance,
     frozen_balance |-> original_balance,
     liquid_balance |-> 0,
     requested_balance |-> 0,
     transferred_balance |-> 0]

\* The VestedBalance add_vested_balance pushes.
NewVestedBalance(address, original_balance, n) ==
    [address |-> address,
     vested_balance_schedules |-> NewSchedules(n, original_balance \div n),
     original_balance |-> original_balance,
     frozen_balance |-> original_balance,
     liquid_balance |-> 0,
     requested_balance |-> 0,
     transferred_balance |-> 0]

\* ------------------------------------------------------------------ queries
get_vesting_info == <<asset_id, total_vested_schedule, vesting_owner>>

get_vested_balance(address) ==
    LET i == PositionOf(vested_balances, address)
    IN  IF i = 0 THEN None ELSE Some(vested_balances[i])

get_all_vested_balance == vested_balances

\* -------------------------------------------------------------------- Init
\* The state after the constructor new(asset_id, total_vested_schedule);
\* default() is new(0, 0).  The caller of the constructor becomes the owner.
\* The runs start from new(0, n) sent by account 1: the accounts are
\* interchangeable, and no message reads asset_id (setup_vesting installs
\* the other asset ids).
new(caller, new_asset_id, new_total) ==
    /\ asset_id = new_asset_id
    /\ total_vested_schedule = new_total
    /\ vested_balances = <<>>
    /\ vesting_owner = caller
    /\ events = <<>>
    /\ result = "Ok"
    /\ calls = 0
    /\ msg = [op |-> "new", caller |-> caller]

Init == \E n \in ScheduleCounts : new(1, 0, n)

\* A message that ends by emitting one event and returning Ok(()).
Emit(caller, status) ==
    /\ events' = <<VestingEvent(caller, status)>>
    /\ result' = "Ok"

\* A message that only emits an error event: the storage is not written.
Reject(caller, error) ==
    /\ Emit(caller, EmitError(error))
    /\ UNCHANGED ledger

\* A message that panics: the call traps, storage and events are reverted.
Trap ==
    /\ events' = <<>>
    /\ result' = "Trap"
    /\ UNCHANGED ledger

\* ------------------------------------------------------------------ actions
\* Mutant of setup_vesting: the balances are kept.
setup_vesting_KeepsBalances(caller, new_asset_id, new_total) ==
    IF caller # vesting_owner
    THEN Reject(caller, "BadOrigin")
    ELSE /\ asset_id' = new_asset_id
         /\ total_vested_schedule' = new_total
         /\ UNCHANGED <<vested_balances, vesting_owner>>
         /\ Emit(caller, EmitSuccess("VestingSetupSuccess"))

setup_vesting(caller, new_asset_id, new_total) ==
    IF caller # vesting_owner
    THEN Reject(caller, "BadOrigin")
    ELSE /\ asset_id' = new_asset_id
         /\ total_vested_schedule' = new_total
         /\ vested_balances' = <<>>
         /\ UNCHANGED vesting_owner
         /\ Emit(caller, EmitSuccess("VestingSetupSuccess"))

\* Mutant of AddressExists: only the balance pushed last is compared.
AddressExists_LastOnly(address) ==
    /\ vested_balances # <<>>
    /\ vested_balances[Len(vested_balances)].address = address

\* vested_balances.iter().any(|v| v.address == address)
AddressExists(address) ==
    \E i \in 1..Len(vested_balances) : vested_balances[i].address = address

add_vested_balance(caller, address, original_balance) ==
    IF caller # vesting_owner
    THEN Reject(caller, "BadOrigin")
    ELSE IF AddressExists(address)
    THEN Reject(caller, "VestedBalanceAlreadyExist")
    ELSE IF total_vested_schedule = 0
    THEN Trap     \* original_balance / 0 panics
    ELSE /\ vested_balances' =
                Append(vested_balances,
                       NewVestedBalance(address, original_balance, total_vested_schedule))
         /\ UNCHANGED <<asset_id, total_vested_schedule, vesting_owner>>
         /\ Emit(caller, EmitSuccess("VestedBalanceAdded"))

\* Mutant of ThawSchedules: the test of the status is left out.
ThawSchedules_AnyStatus(schedules, schedule_number) ==
    [i \in 1..Len(schedules) |->
        IF schedules[i].schedule_number = schedule_number
        THEN [schedules[i] EXCEPT !.status = Liquid]
        ELSE schedules[i]]

\* The inner loop of thaw_vested_balances over one balance's schedules.
ThawSchedules(schedules, schedule_number) ==
    [i \in 1..Len(schedules) |->
        IF schedules[i].schedule_number = schedule_number /\ schedules[i].status = Frozen
        THEN [schedules[i] EXCEPT !.status = Liquid]
        ELSE schedules[i]]

\* The body of the outer loop of thaw_vested_balances for one balance.
ThawBalance(vb, schedule_number) ==
    calculate_balances(
        [vb EXCEPT !.vested_balance_schedules =
                        ThawSchedules(vb.vested_balance_schedules, schedule_number)])

\* Mutant of thaw_vested_balances: the outer loop stops after one balance.
thaw_vested_balances_FirstOnly(caller, schedule_number) ==
    IF caller # vesting_owner
    THEN Reject(caller, "BadOrigin")
    ELSE /\ vested_balances' =
                [i \in 1..Len(vested_balances) |->
                    IF i = 1 THEN ThawBalance(vested_balances[i], schedule_number)
                    ELSE vested_balances[i]]
         /\ UNCHANGED <<asset_id, total_vested_schedule, vesting_owner>>
         /\ Emit(caller, EmitSuccess("VestedBalanceScheduleThawed"))

thaw_vested_balances(caller, schedule_number) ==
    IF caller # vesting_owner
    THEN Reject(caller, "BadOrigin")
    ELSE /\ vested_balances' =
                [i \in 1..Len(vested_balances) |->
                    ThawBalance(vested_balances[i], schedule_number)]
         /\ UNCHANGED <<asset_id, total_vested_schedule, vesting_owner>>
         /\ Emit(caller, EmitSuccess("VestedBalanceScheduleThawed"))

\* Mutant of ScheduleIsLiquid: a Requested schedule is requested again.
ScheduleIsLiquid_OrRequested(schedule) == schedule.status \in {Liquid, Requested}

\* request_transfer's test of the schedule it found: schedule.status == 1
ScheduleIsLiquid(schedule) == schedule.status = Liquid

\* Mutant of RequestSchedule: the recipient is not stored.
RequestSchedule_NoRecipient(vb, j, recipient_address) ==
    calculate_balances(
        [vb EXCEPT !.vested_balance_schedules[j].status = Requested])

\* The update request_transfer makes to schedule j of balance vb.
RequestSchedule(vb, j, recipient_address) ==
    calculate_balances(
        [vb EXCEPT !.vested_balance_schedules[j].status = Requested,
                   !.vested_balance_schedules[j].recipient_address = Some(recipient_address)])

\* Mutant of request_transfer: the balance is looked up by the recipient.
request_transfer_OfRecipient(caller, schedule_number, recipient_address) ==
    LET i == PositionOf(vested_balances, recipient_address)
    IN  IF i = 0
        THEN Reject(caller, "VestedBalanceNotFound")
        ELSE LET vb == vested_balances[i]
                 j == SchedulePositionOf(vb.vested_balance_schedules, schedule_number)
             IN  IF j = 0
                 THEN Reject(caller, "VestedBalanceScheduleNotFound")
                 ELSE IF ScheduleIsLiquid(vb.vested_balance_schedules[j])
                 THEN /\ vested_balances' =
                            [vested_balances EXCEPT ![i] = RequestSchedule(vb, j, recipient_address)]
                      /\ UNCHANGED <<asset_id, total_vested_schedule, vesting_owner>>
                      /\ Emit(caller, EmitSuccess("VestedBalanceScheduleRequested"))
                 ELSE Reject(caller, "VestedBalanceScheduleNotLiquid")

request_transfer(caller, schedule_number, recipient_address) ==
    LET i == PositionOf(vested_balances, caller)
    IN  IF i = 0
        THEN Reject(caller, "VestedBalanceNotFound")
        ELSE LET vb == vested_balances[i]
                 j == SchedulePositionOf(vb.vested_balance_schedules, schedule_number)
             IN  IF j = 0
                 THEN Reject(caller, "VestedBalanceScheduleNotFound")
                 ELSE IF ScheduleIsLiquid(vb.vested_balance_schedules[j])
                 THEN /\ vested_balances' =
                            [vested_balances EXCEPT ![i] = RequestSchedule(vb, j, recipient_address)]
                      /\ UNCHANGED <<asset_id, total_vested_schedule, vesting_owner>>
                      /\ Emit(caller, EmitSuccess("VestedBalanceScheduleRequested"))
                 ELSE Reject(caller, "VestedBalanceScheduleNotLiquid")

\* Mutant of ScheduleIsRequested: a Liquid schedule is approved too.
ScheduleIsRequested_OrLiquid(schedule) == schedule.status \in {Liquid, Requested}

\* Mutant of ScheduleIsRequested: a Transferred schedule is approved again.
ScheduleIsRequested_OrTransferred(schedule) == schedule.status >= Requested

\* approve_transfer's test of the schedule it found: schedule.status == 2
ScheduleIsRequested(schedule) == schedule.status = Requested

\* Mutant of ApproveSchedule: the recipient is cleared once transferred.
ApproveSchedule_ClearsRecipient(vb, j, tx_hash) ==
    calculate_balances(
        [vb EXCEPT !.vested_balance_schedules[j].status = Transferred,
                   !.vested_balance_schedules[j].recipient_address = None,
                   !.vested_balance_schedules[j].particulars = tx_hash])

\* The update approve_transfer makes to schedule j of balance vb.
ApproveSchedule(vb, j, tx_hash) ==
    calculate_balances(
        [vb EXCEPT !.vested_balance_schedules[j].status = Transferred,
                   !.vested_balance_schedules[j].particulars = tx_hash])

approve_transfer(caller, requesting_address, schedule_number, tx_hash) ==
    IF caller # vesting_owner
    THEN Reject(caller, "BadOrigin")
    ELSE LET i == PositionOf(vested_balances, requesting_address)
         IN  IF i = 0
             THEN Reject(caller, "VestedBalanceNotFound")
             ELSE LET vb == vested_balances[i]
                      j == SchedulePositionOf(vb.vested_balance_schedules, schedule_number)
                  IN  IF j = 0
                      THEN Reject(caller, "VestedBalanceScheduleNotFound")
                      ELSE IF ScheduleIsRequested(vb.vested_balance_schedules[j])
                      THEN /\ vested_balances' =
                                 [vested_balances EXCEPT ![i] = ApproveSchedule(vb, j, tx_hash)]
                           /\ UNCHANGED <<asset_id, total_vested_schedule, vesting_owner>>
                           /\ Emit(caller, EmitSuccess("VestedBalanceScheduleApproved"))
                      ELSE Reject(caller, "VestedBalanceScheduleNotRequested")

\* Mutant of remove_vested_balance: the caller is not checked.
remove_vested_balance_AnyCaller(caller, address) ==
    LET index == PositionOf(vested_balances, address)
    IN  IF index = 0
        THEN Reject(caller, "VestedBalanceNotFound")
        ELSE /\ vested_balances' = SwapRemove(vested_balances, index)
             /\ UNCHANGED <<asset_id, total_vested_schedule, vesting_owner>>
             /\ Emit(caller, EmitSuccess("VestedBalanceRemoved"))

remove_vested_balance(caller, address) ==
    IF caller # vesting_owner
    THEN Reject(caller, "BadOrigin")
    ELSE LET index == PositionOf(vested_balances, address)
         IN  IF index = 0
             THEN Reject(caller, "VestedBalanceNotFound")
             ELSE /\ vested_balances' = SwapRemove(vested_balances, index)
                  /\ UNCHANGED <<asset_id, total_vested_schedule, vesting_owner>>
                  /\ Emit(caller, EmitSuccess("VestedBalanceRemoved"))

\* One message sent to the contract by caller: the host runs it to completion.
Call(op, caller, message) ==
    /\ calls < MaxCalls
    /\ message
    /\ calls' = calls + 1
    /\ msg' = [op |-> op, caller |-> caller]

Next ==
    \/ \E c \in Accounts, a \in AssetIds, n \in ScheduleCounts :
            Call("setup_vesting", c, setup_vesting(c, a, n))
    \/ \E c \in Accounts, a \in Accounts, b \in Amounts :
            Call("add_vested_balance", c, add_vested_balance(c, a, b))
    \/ \E c \in Accounts, n \in ScheduleNumbers :
            Call("thaw_vested_balances", c, thaw_vested_balances(c, n))
    \/ \E c \in Accounts, n \in ScheduleNumbers, r \in Accounts :
            Call("request_transfer", c, request_transfer(c, n, r))
    \/ \E c \in Accounts, a \in Accounts, n \in ScheduleNumbers, h \in TxHashes :
            Call("approve_transfer", c, approve_transfer(c, a, n, h))
    \/ \E c \in Accounts, a \in Accounts :
            Call("remove_vested_balance", c, remove_vested_balance(c, a))

Spec == Init /\ [][Next]_vars

\* The contract constructed with new(0, 4), receiving add_vested_balance for
\* the amount 100, thaw_vested_balances, request_transfer and
\* approve_transfer from any caller, for any address, recipient and tx_hash
\* and any of the schedule numbers 1..=4, in any order.
ScenarioInit == new(1, 0, 4)

ScenarioNext ==
    \/ \E c \in Accounts, a \in Accounts :
            Call("add_vested_balance", c, add_vested_balance(c, a, 100))
    \/ \E c \in Accounts, n \in 1..4 :
            Call("thaw_vested_balances", c, thaw_vested_balances(c, n))
    \/ \E c \in Accounts, n \in 1..4, r \in Accounts :
            Call("request_transfer", c, request_transfer(c, n, r))
    \/ \E c \in Accounts, a \in Accounts, n \in 1..4, h \in TxHashes :
            Call("approve_transfer", c, approve_transfer(c, a, n, h))

ScenarioSpec == ScenarioInit /\ [][ScenarioNext]_vars

\* ---------------------------------------------------- vocabulary of claims
Addresses(balances) == {balances[i].address : i \in 1..Len(balances)}

RECURSIVE ScheduleSum(_)
ScheduleSum(schedules) ==
    IF schedules = <<>> THEN 0
    ELSE Head(schedules).schedule_balance + ScheduleSum(Tail(schedules))

TotalOf(vb) ==
    vb.frozen_balance + vb.liquid_balance + vb.requested_balance + vb.transferred_balance

\* The step left the storage alone and emitted exactly the error event.
Rejected(caller, error) ==
    /\ UNCHANGED ledger
    /\ events' = <<VestingEvent(caller, EmitError(error))>>

\* The step emitted exactly the success event.
Succeeded(caller, success) ==
    events' = <<VestingEvent(caller, EmitSuccess(success))>>

LastEvent(caller, status) == events = <<VestingEvent(caller, status)>>

\* The step is the message op sent by caller / the last message was that.
Sent(op, caller) == msg' = [op |-> op, caller |-> caller]
LastSent(op, caller) == msg = [op |-> op, caller |-> caller]

\* The messages only the owner may send.
OwnerOnly == {"setup_vesting", "add_vested_balance", "thaw_vested_balances",
              "approve_transfer", "remove_vested_balance"}

\* ------------------------------------------------------------------ claims
\* C1: in every reachable state every stored balance satisfies
\* frozen_balance + liquid_balance + requested_balance + transferred_balance
\* = original_balance.
C1_TotalsEqualOriginal ==
    \A i \in 1..Len(vested_balances) :
        TotalOf(vested_balances[i]) = vested_balances[i].original_balance

\* C2: in every reachable state the four totals of every stored balance add
\* up to the sum of the schedule_balance of all its schedules, also right
\* after add_vested_balance and for amounts the schedule count does not
\* divide.
C2_TotalsEqualScheduleSum ==
    \A i \in 1..Len(vested_balances) :
        TotalOf(vested_balances[i]) = ScheduleSum(vested_balances[i].vested_balance_schedules)

\* C3: while a balance exists, the status of each of its schedules never
\* decreases (Frozen < Liquid < Requested < Transferred) and a Transferred
\* schedule is never changed again, whatever message whichever caller sends.
C3_StatusNeverDecreases ==
    [][\A i \in 1..Len(vested_balances), k \in 1..Len(vested_balances') :
        vested_balances[i].address = vested_balances'[k].address =>
            \A j \in 1..Len(vested_balances[i].vested_balance_schedules) :
                LET old == vested_balances[i].vested_balance_schedules[j]
                IN  \E m \in 1..Len(vested_balances'[k].vested_balance_schedules) :
                        LET cur == vested_balances'[k].vested_balance_schedules[m]
                        IN  /\ cur.schedule_number = old.schedule_number
                            /\ cur.status >= old.status
                            /\ old.status = Transferred => cur = old]_vars

\* A Transferred schedule in the only balance of the ledger, whose only
\* schedule it is, right after an approve_transfer that was refused.
C3_Witness ==
    /\ Len(vested_balances) = 1
    /\ Len(vested_balances[1].vested_balance_schedules) = 1
    /\ vested_balances[1].vested_balance_schedules[1].status = Transferred
    /\ LastSent("approve_transfer", vesting_owner)
    /\ LastEvent(vesting_owner, EmitError("VestedBalanceScheduleNotRequested"))

\* C4: every change of a schedule's status in a surviving balance is one
\* step forward made by the responsible message: Frozen -> Liquid by a
\* thaw_vested_balances of the owner, Liquid -> Requested by a
\* request_transfer of the balance's address, Requested -> Transferred by an
\* approve_transfer of the owner.
C4_OneStepByTheResponsibleMessage ==
    [][\A i \in 1..Len(vested_balances), k \in 1..Len(vested_balances') :
        vested_balances[i].address = vested_balances'[k].address =>
            \A j \in 1..Len(vested_balances[i].vested_balance_schedules),
               m \in 1..Len(vested_balances'[k].vested_balance_schedules) :
                LET a == vested_balances[i].address
                    old == vested_balances[i].vested_balance_schedules[j]
                    cur == vested_balances'[k].vested_balance_schedules[m]
                IN  (cur.schedule_number = old.schedule_number /\ cur.status # old.status)
                    =>
                    /\ cur.status = old.status + 1
                    /\ old.status = Frozen =>
                            /\ Sent("thaw_vested_balances", vesting_owner)
                            /\ thaw_vested_balances(vesting_owner, old.schedule_number)
                            /\ Succeeded(vesting_owner, "VestedBalanceScheduleThawed")
                    /\ old.status = Liquid =>
                            /\ Sent("request_transfer", a)
                            /\ \E r \in Accounts :
                                    request_transfer(a, old.schedule_number, r)
                            /\ Succeeded(a, "VestedBalanceScheduleRequested")
                    /\ old.status = Requested =>
                            /\ Sent("approve_transfer", vesting_owner)
                            /\ \E h \in TxHashes :
                                    approve_transfer(vesting_owner, a, old.schedule_number, h)
                            /\ Succeeded(vesting_owner, "VestedBalanceScheduleApproved")]_vars

\* A schedule that has just become Transferred, in the balance of an address
\* that is not the owner.
C4_Witness ==
    \E i \in 1..Len(vested_balances) :
        /\ vested_balances[i].address # vesting_owner
        /\ \E j \in 1..Len(vested_balances[i].vested_balance_schedules) :
                /\ vested_balances[i].vested_balance_schedules[j].status = Transferred
                /\ vested_balances[i].vested_balance_schedules[j].recipient_address # None
        /\ LastSent("approve_transfer", vesting_owner)
    /\ LastEvent(vesting_owner, EmitSuccess("VestedBalanceScheduleApproved"))

\* C5: a setup_vesting, add_vested_balance, thaw_vested_balances,
\* approve_transfer or remove_vested_balance sent by a caller who is not the
\* owner leaves the whole ledger as it was and emits the BadOrigin event.
C5_NonOwnerIsRejected ==
    [][(msg'.op \in OwnerOnly /\ msg'.caller # vesting_owner)
            => Rejected(msg'.caller, "BadOrigin")]_vars

\* A remove_vested_balance sent by a caller who is not the owner, to a ledger
\* that holds a balance with a Frozen and a Liquid schedule, has just been
\* answered with BadOrigin.
C5_Witness ==
    /\ msg.op = "remove_vested_balance"
    /\ msg.caller # vesting_owner
    /\ LastEvent(msg.caller, EmitError("BadOrigin"))
    /\ \E i \in 1..Len(vested_balances) :
            /\ vested_balances[i].frozen_balance > 0
            /\ vested_balances[i].liquid_balance > 0

\* C6: an add_vested_balance of the owner for an address that already has a
\* balance leaves the ledger as it was and emits VestedBalanceAlreadyExist,
\* whatever amount is passed; and no reachable ledger holds two balances
\* with the same address.
C6_NoSecondBalanceForAnAddress ==
    /\ [](\A i, k \in 1..Len(vested_balances) :
            vested_balances[i].address = vested_balances[k].address => i = k)
    /\ [][Sent("add_vested_balance", vesting_owner) =>
            \A a \in Addresses(vested_balances), b \in Amounts :
                add_vested_balance(vesting_owner, a, b)
                    => Rejected(vesting_owner, "VestedBalanceAlreadyExist")]_vars

\* VestedBalanceAlreadyExist was just reported, for an amount that differs
\* from the stored one, in a ledger whose balances have no Frozen schedule
\* left.
C6_Witness ==
    /\ LastSent("add_vested_balance", vesting_owner)
    /\ LastEvent(vesting_owner, EmitError("VestedBalanceAlreadyExist"))
    /\ vested_balances # <<>>
    /\ \A i \in 1..Len(vested_balances) :
            /\ vested_balances[i].original_balance = MaxAmount
            /\ vested_balances[i].frozen_balance = 0
            /\ vested_balances[i].liquid_balance > 0
    /\ ENABLED (/\ Call("add_vested_balance", vesting_owner,
                        add_vested_balance(vesting_owner, vested_balances[1].address,
                                           MaxAmount - 1))
                /\ Rejected(vesting_owner, "VestedBalanceAlreadyExist"))

\* C7: request_transfer reports VestedBalanceNotFound when the caller has no
\* balance, else VestedBalanceScheduleNotFound when the caller's balance has
\* no schedule with that number, else VestedBalanceScheduleNotLiquid when
\* that schedule is Frozen, Requested or Transferred; in the three cases the
\* ledger, the schedule's recipient and the totals included, is unchanged.
C7_RequestTransferErrors ==
    [][\A c \in Accounts, n \in ScheduleNumbers, r \in Accounts :
        (Sent("request_transfer", c) /\ request_transfer(c, n, r)) =>
            IF c \notin Addresses(vested_balances)
            THEN Rejected(c, "VestedBalanceNotFound")
            ELSE \A i \in 1..Len(vested_balances) :
                    vested_balances[i].address = c =>
                        LET schedules == vested_balances[i].vested_balance_schedules
                        IN  IF \A j \in 1..Len(schedules) : schedules[j].schedule_number # n
                            THEN Rejected(c, "VestedBalanceScheduleNotFound")
                            ELSE \A j \in 1..Len(schedules) :
                                    (/\ schedules[j].schedule_number = n
                                     /\ schedules[j].status \in {Frozen, Requested, Transferred})
                                    => Rejected(c, "VestedBalanceScheduleNotLiquid")]_vars

\* VestedBalanceScheduleNotLiquid was just reported to a caller all of whose
\* schedules are Requested, towards a recipient that is not the caller.
C7_Witness ==
    \E i \in 1..Len(vested_balances) :
        /\ LastSent("request_transfer", vested_balances[i].address)
        /\ LastEvent(vested_balances[i].address, EmitError("VestedBalanceScheduleNotLiquid"))
        /\ \A j \in 1..Len(vested_balances[i].vested_balance_schedules) :
                LET s == vested_balances[i].vested_balance_schedules[j]
                IN  /\ s.status = Requested
                    /\ s.recipient_address # Some(vested_balances[i].address)
        /\ vested_balances[i].requested_balance > 0

\* C8: approve_transfer of the owner reports VestedBalanceNotFound when the
\* requesting address has no balance, else VestedBalanceScheduleNotFound when
\* that balance has no schedule with that number, else
\* VestedBalanceScheduleNotRequested when that schedule is Frozen, Liquid or
\* Transferred; in the three cases the ledger, the schedule's particulars
\* and the totals included, is unchanged.
C8_ApproveTransferErrors ==
    [][\A a \in Accounts, n \in ScheduleNumbers, h \in TxHashes :
        (/\ Sent("approve_transfer", vesting_owner)
         /\ approve_transfer(vesting_owner, a, n, h)) =>
            IF a \notin Addresses(vested_balances)
            THEN Rejected(vesting_owner, "VestedBalanceNotFound")
            ELSE \A i \in 1..Len(vested_balances) :
                    vested_balances[i].address = a =>
                        LET schedules == vested_balances[i].vested_balance_schedules
                        IN  IF \A j \in 1..Len(schedules) : schedules[j].schedule_number # n
                            THEN Rejected(vesting_owner, "VestedBalanceScheduleNotFound")
                            ELSE \A j \in 1..Len(schedules) :
                                    (/\ schedules[j].schedule_number = n
                                     /\ schedules[j].status \in {Frozen, Liquid, Transferred})
                                    => Rejected(vesting_owner,
                                                "VestedBalanceScheduleNotRequested")]_vars

\* VestedBalanceScheduleNotRequested was just reported to the owner in a
\* ledger whose only balance has all its schedules Transferred with the
\* one-byte particulars.
C8_Witness ==
    /\ LastSent("approve_transfer", vesting_owner)
    /\ LastEvent(vesting_owner, EmitError("VestedBalanceScheduleNotRequested"))
    /\ Len(vested_balances) = 1
    /\ vested_balances[1].transferred_balance > 0
    /\ \A j \in 1..Len(vested_balances[1].vested_balance_schedules) :
            LET s == vested_balances[1].vested_balance_schedules[j]
            IN  s.status = Transferred /\ s.particulars = <<171>>

\* C9: remove_vested_balance of the owner for an address that has a balance
\* removes exactly that balance, whatever the statuses of its schedules, and
\* emits VestedBalanceRemoved: afterwards get_vested_balance(address) is
\* None and the remaining balances are the previous ones less that entry,
\* each unchanged; for an address without a balance it reports
\* VestedBalanceNotFound and leaves the ledger unchanged.
C9_RemoveExactlyThatBalance ==
    [][\A a \in Accounts :
        (/\ Sent("remove_vested_balance", vesting_owner)
         /\ remove_vested_balance(vesting_owner, a)) =>
            IF a \in Addresses(vested_balances)
            THEN /\ Succeeded(vesting_owner, "VestedBalanceRemoved")
                 /\ get_vested_balance(a)' = None
                 /\ Len(vested_balances') = Len(vested_balances) - 1
                 /\ \A i \in 1..Len(vested_balances) :
                        vested_balances[i].address # a =>
                            \E k \in 1..Len(vested_balances') :
                                vested_balances'[k] = vested_balances[i]
                 /\ UNCHANGED <<asset_id, total_vested_schedule, vesting_owner>>
            ELSE Rejected(vesting_owner, "VestedBalanceNotFound")]_vars

\* The first of two balances has a Requested schedule, and the owner's
\* remove_vested_balance for its address removes it and keeps the other one.
C9_Witness ==
    /\ Len(vested_balances) = 2
    /\ vested_balances[1].requested_balance > 0
    /\ \E j \in 1..Len(vested_balances[1].vested_balance_schedules) :
            vested_balances[1].vested_balance_schedules[j].status = Requested
    /\ ENABLED (/\ Call("remove_vested_balance", vesting_owner,
                        remove_vested_balance(vesting_owner, vested_balances[1].address))
                /\ Succeeded(vesting_owner, "VestedBalanceRemoved")
                /\ vested_balances' = <<vested_balances[2]>>)

\* C10: setup_vesting of the owner installs the given asset_id and
\* total_vested_schedule, keeps the owner, discards every balance whatever
\* the statuses of its schedules and emits VestingSetupSuccess; right after,
\* get_all_vested_balance() is empty and get_vesting_info() gives the new
\* values with the owner.
C10_SetupDiscardsEveryBalance ==
    [][\A a \in AssetIds, n \in ScheduleCounts :
        (/\ Sent("setup_vesting", vesting_owner)
         /\ setup_vesting(vesting_owner, a, n)) =>
            /\ asset_id' = a
            /\ total_vested_schedule' = n
            /\ vesting_owner' = vesting_owner
            /\ vested_balances' = <<>>
            /\ Succeeded(vesting_owner, "VestingSetupSuccess")
            /\ get_all_vested_balance' = <<>>
            /\ get_vesting_info' = <<a, n, vesting_owner>>]_vars

\* A ledger of two balances, one with a Requested schedule, where the
\* owner's setup_vesting installs another asset id and another schedule
\* count and leaves no balance.
C10_Witness ==
    /\ Len(vested_balances) = 2
    /\ \E i \in 1..Len(vested_balances) : vested_balances[i].requested_balance > 0
    /\ ENABLED (/\ \E a \in AssetIds, n \in ScheduleCounts :
                        Call("setup_vesting", vesting_owner,
                             setup_vesting(vesting_owner, a, n))
                /\ asset_id' # asset_id
                /\ total_vested_schedule' # total_vested_schedule
                /\ vested_balances' = <<>>
                /\ Succeeded(vesting_owner, "VestingSetupSuccess"))

\* The six messages.
Messages == OwnerOnly \cup {"request_transfer"}

\* The outcome carried by an event is a Success variant / an Error variant.
IsSuccess(event) == event.status[1] = "EmitSuccess"
IsError(event) == event.status[1] = "EmitError"

\* The caller has a balance with a schedule numbered n whose status is st.
HasScheduleIn(address, n, st) ==
    \E i \in 1..Len(vested_balances) :
        /\ vested_balances[i].address = address
        /\ \E j \in 1..Len(vested_balances[i].vested_balance_schedules) :
                LET s == vested_balances[i].vested_balance_schedules[j]
                IN  s.schedule_number = n /\ s.status = st

\* C11: every call of one of the six messages, by any caller with any
\* arguments in any reachable state, emits exactly one event, whose operator
\* is the caller and whose outcome is one Success or one Error variant; the
\* outcome is a Success exactly when none of the message's error conditions
\* holds.
C11_ExactlyOneEvent ==
    [][msg'.op \in Messages =>
        /\ Len(events') = 1
        /\ events'[1].operator = msg'.caller
        /\ IsSuccess(events'[1]) \/ IsError(events'[1])
        /\ LET c == msg'.caller
               ok == IsSuccess(events'[1])
           IN  \/ \E a \in AssetIds, n \in ScheduleCounts :
                    /\ Sent("setup_vesting", c) /\ setup_vesting(c, a, n)
                    /\ ok <=> c = vesting_owner
               \/ \E a \in Accounts, b \in Amounts :
                    /\ Sent("add_vested_balance", c) /\ add_vested_balance(c, a, b)
                    /\ ok <=> (c = vesting_owner /\ a \notin Addresses(vested_balances))
               \/ \E n \in ScheduleNumbers :
                    /\ Sent("thaw_vested_balances", c) /\ thaw_vested_balances(c, n)
                    /\ ok <=> c = vesting_owner
               \/ \E n \in ScheduleNumbers, r \in Accounts :
                    /\ Sent("request_transfer", c) /\ request_transfer(c, n, r)
                    /\ ok <=> HasScheduleIn(c, n, Liquid)
               \/ \E a \in Accounts, n \in ScheduleNumbers, h \in TxHashes :
                    /\ Sent("approve_transfer", c) /\ approve_transfer(c, a, n, h)
                    /\ ok <=> (c = vesting_owner /\ HasScheduleIn(a, n, Requested))
               \/ \E a \in Accounts :
                    /\ Sent("remove_vested_balance", c) /\ remove_vested_balance(c, a)
                    /\ ok <=> (c = vesting_owner /\ a \in Addresses(vested_balances))]_vars

\* C12: every call of every message ends normally and returns Ok(()), never
\* an error and never a trap, for every caller, every argument and every
\* reachable ledger, whatever total_vested_schedule the constructors
\* (default() included) and setup_vesting installed.
C12_EveryCallReturnsOk == result = "Ok"

\* C13: add_vested_balance(address, original_balance) of the owner for an
\* address without a balance, N being total_vested_schedule, pushes a balance
\* with exactly N schedules numbered 1..=N, each of original_balance / N,
\* Frozen, without recipient and with empty particulars, with
\* original_balance and frozen_balance equal to the amount given and the
\* three other totals 0; every other balance is unchanged and
\* VestedBalanceAdded is emitted.
C13_AddCreatesTheBalance ==
    [][\A a \in Accounts, b \in Amounts :
        (/\ Sent("add_vested_balance", vesting_owner)
         /\ add_vested_balance(vesting_owner, a, b)
         /\ a \notin Addresses(vested_balances)) =>
            /\ Succeeded(vesting_owner, "VestedBalanceAdded")
            /\ Len(vested_balances') = Len(vested_balances) + 1
            /\ \A i \in 1..Len(vested_balances) : vested_balances'[i] = vested_balances[i]
            /\ LET N == total_vested_schedule
                   vb == vested_balances'[Len(vested_balances')]
               IN  /\ vb.address = a
                   /\ Len(vb.vested_balance_schedules) = N
                   /\ \A j \in 1..N :
                        LET s == vb.vested_balance_schedules[j]
                        IN  /\ s.schedule_number = j
                            /\ s.schedule_balance = b \div N
                            /\ s.status = Frozen
                            /\ s.recipient_address = None
                            /\ s.particulars = <<>>
                   /\ vb.original_balance = b
                   /\ vb.frozen_balance = b
                   /\ vb.liquid_balance = 0
                   /\ vb.requested_balance = 0
                   /\ vb.transferred_balance = 0
            /\ UNCHANGED <<asset_id, total_vested_schedule, vesting_owner>>]_vars

\* C14: thaw_vested_balances(schedule_number) of the owner sets to Liquid
\* every schedule, in every balance of the ledger, that has that number and
\* is Frozen; every schedule with another number or with status Liquid,
\* Requested or Transferred keeps its status, recipient and particulars; and
\* the call emits VestedBalanceScheduleThawed exactly once, also when the
\* ledger is empty or no schedule was changed.
C14_ThawEveryFrozenScheduleOfThatNumber ==
    [][\A n \in ScheduleNumbers :
        (/\ Sent("thaw_vested_balances", vesting_owner)
         /\ thaw_vested_balances(vesting_owner, n)) =>
            /\ Succeeded(vesting_owner, "VestedBalanceScheduleThawed")
            /\ Len(vested_balances') = Len(vested_balances)
            /\ \A i \in 1..Len(vested_balances) :
                LET olds == vested_balances[i].vested_balance_schedules
                    curs == vested_balances'[i].vested_balance_schedules
                IN  /\ vested_balances'[i].address = vested_balances[i].address
                    /\ Len(curs) = Len(olds)
                    /\ \A j \in 1..Len(olds) :
                        /\ curs[j].schedule_number = olds[j].schedule_number
                        /\ IF olds[j].schedule_number = n /\ olds[j].status = Frozen
                           THEN curs[j].status = Liquid
                           ELSE /\ curs[j].status = olds[j].status
                                /\ curs[j].recipient_address = olds[j].recipient_address
                                /\ curs[j].particulars = olds[j].particulars]_vars

\* The owner has just thawed a schedule number in a ledger of two balances:
\* both now have a Liquid schedule, and the first one has a Requested
\* schedule, with its recipient, that the call left alone.
C14_Witness ==
    /\ LastSent("thaw_vested_balances", vesting_owner)
    /\ LastEvent(vesting_owner, EmitSuccess("VestedBalanceScheduleThawed"))
    /\ Len(vested_balances) = 2
    /\ \A i \in 1..2 :
            /\ vested_balances[i].liquid_balance > 0
            /\ vested_balances[i].frozen_balance = 0
    /\ \E j \in 1..Len(vested_balances[1].vested_balance_schedules) :
            LET s == vested_balances[1].vested_balance_schedules[j]
            IN  s.status = Requested /\ s.recipient_address # None

\* The balance of address a in the scenario of C15: four schedules of 25,
\* the first one as given and the three others Frozen, and the four totals.
ScenarioSchedule(number, status, recipient, particulars) ==
    [schedule_number |-> number, schedule_balance |-> 25, status |-> status,
     recipient_address |-> recipient, particulars |-> particulars]

ScenarioBalance(a, first, frozen, liquid, requested, transferred) ==
    [address |-> a,
     vested_balance_schedules |->
        <<first,
          ScenarioSchedule(2, Frozen, None, <<>>),
          ScenarioSchedule(3, Frozen, None, <<>>),
          ScenarioSchedule(4, Frozen, None, <<>>)>>,
     original_balance |-> 100,
     frozen_balance |-> frozen,
     liquid_balance |-> liquid,
     requested_balance |-> requested,
     transferred_balance |-> transferred]

ScenarioAdded(a) ==
    ScenarioBalance(a, ScenarioSchedule(1, Frozen, None, <<>>), 100, 0, 0, 0)
ScenarioThawed(a) ==
    ScenarioBalance(a, ScenarioSchedule(1, Liquid, None, <<>>), 75, 25, 0, 0)
ScenarioRequested(a, b) ==
    ScenarioBalance(a, ScenarioSchedule(1, Requested, Some(b), <<>>), 75, 0, 25, 0)
ScenarioApproved(a, b, memo) ==
    ScenarioBalance(a, ScenarioSchedule(1, Transferred, Some(b), memo), 75, 0, 0, 25)

\* C15: from a ledger with total_vested_schedule = 4 and no balance, the
\* owner's add_vested_balance(A, 100) yields 4 schedules of 25 with
\* frozen_balance = 100; then the owner's thaw_vested_balances(1) yields
\* schedule 1 Liquid, frozen_balance = 75, liquid_balance = 25; then A's
\* request_transfer(1, B) yields schedule 1 Requested with recipient B,
\* requested_balance = 25, liquid_balance = 0; then the owner's
\* approve_transfer(A, 1, memo) yields schedule 1 Transferred with that memo,
\* transferred_balance = 25, requested_balance = 0; schedules 2..4 stay
\* Frozen throughout.
C15_Scenario ==
    [][\A a \in Accounts :
        /\ (/\ Sent("add_vested_balance", vesting_owner)
            /\ total_vested_schedule = 4
            /\ vested_balances = <<>>
            /\ add_vested_balance(vesting_owner, a, 100))
           => vested_balances' = <<ScenarioAdded(a)>>
        /\ (/\ Sent("thaw_vested_balances", vesting_owner)
            /\ vested_balances = <<ScenarioAdded(a)>>
            /\ thaw_vested_balances(vesting_owner, 1))
           => vested_balances' = <<ScenarioThawed(a)>>
        /\ \A b \in Accounts :
            /\ (/\ Sent("request_transfer", a)
                /\ vested_balances = <<ScenarioThawed(a)>>
                /\ request_transfer(a, 1, b))
               => vested_balances' = <<ScenarioRequested(a, b)>>
            /\ \A memo \in TxHashes :
                (/\ Sent("approve_transfer", vesting_owner)
                 /\ vested_balances = <<ScenarioRequested(a, b)>>
                 /\ approve_transfer(vesting_owner, a, 1, memo))
                => vested_balances' = <<ScenarioApproved(a, b, memo)>>]_vars

\* The end of the scenario, four calls after the constructor: the balance of
\* an address that is not the owner, with another account as the recipient
\* and the one-byte memo, right after the approval.
C15_Witness ==
    /\ calls = 4
    /\ LastSent("approve_transfer", vesting_owner)
    /\ LastEvent(vesting_owner, EmitSuccess("VestedBalanceScheduleApproved"))
    /\ \E a, b \in Accounts :
            /\ a # vesting_owner
            /\ b # a
            /\ vested_balances = <<ScenarioApproved(a, b, <<171>>)>>

\* C16: in every reachable state every stored balance has exactly N
\* schedules, N being the current total_vested_schedule, whose numbers are
\* pairwise distinct and are exactly 1..=N, also after setup_vesting calls
\* that change total_vested_schedule; and every status is Frozen, Liquid,
\* Requested or Transferred.
C16_SchedulesAreOneToN ==
    \A i \in 1..Len(vested_balances) :
        LET schedules == vested_balances[i].vested_balance_schedules
        IN  /\ Len(schedules) = total_vested_schedule
            /\ \A j, k \in 1..Len(schedules) :
                    schedules[j].schedule_number = schedules[k].schedule_number => j = k
            /\ {schedules[j].schedule_number : j \in 1..Len(schedules)}
                    = 1..total_vested_schedule
            /\ \A j \in 1..Len(schedules) :
                    schedules[j].status \in {Frozen, Liquid, Requested, Transferred}

\* A setup_vesting has installed the other asset id and the largest schedule
\* count, and a balance added since has a Liquid schedule and a Frozen one.
C16_Witness ==
    /\ asset_id # 0
    /\ total_vested_schedule = MaxSchedule
    /\ \E i \in 1..Len(vested_balances) :
            /\ Len(vested_balances[i].vested_balance_schedules) = MaxSchedule
            /\ vested_balances[i].liquid_balance > 0
            /\ vested_balances[i].frozen_balance > 0

\* C17: in every reachable state, for every schedule of every balance, the
\* recipient is set exactly when the status is Requested or Transferred, and
\* the particulars are empty whenever the status is Frozen, Liquid or
\* Requested.
C17_RecipientAndParticularsFollowTheStatus ==
    \A i \in 1..Len(vested_balances) :
        \A j \in 1..Len(vested_balances[i].vested_balance_schedules) :
            LET s == vested_balances[i].vested_balance_schedules[j]
            IN  /\ s.recipient_address # None <=> s.status \in {Requested, Transferred}
                /\ s.status \in {Frozen, Liquid, Requested} => s.particulars = <<>>

\* A balance with a Transferred schedule, which has a recipient and the
\* one-byte particulars, next to a schedule that is still Frozen or Liquid.
C17_Witness ==
    \E i \in 1..Len(vested_balances) :
        LET schedules == vested_balances[i].vested_balance_schedules
        IN  /\ \E j \in 1..Len(schedules) :
                    /\ schedules[j].status = Transferred
                    /\ schedules[j].recipient_address # None
                    /\ schedules[j].particulars = <<171>>
            /\ \E j \in 1..Len(schedules) :
                    /\ schedules[j].status \in {Frozen, Liquid}
                    /\ schedules[j].recipient_address = None

\* The sum of the schedule_balance of the schedules of vb whose status is st.
AmountIn(vb, st) ==
    ScheduleSum(SelectSeq(vb.vested_balance_schedules, LAMBDA s : s.status = st))

\* Each of the four totals of vb is the sum over the schedules in its status.
TotalsMatchSchedules(vb) ==
    /\ vb.frozen_balance = AmountIn(vb, Frozen)
    /\ vb.liquid_balance = AmountIn(vb, Liquid)
    /\ vb.requested_balance = AmountIn(vb, Requested)
    /\ vb.transferred_balance = AmountIn(vb, Transferred)

\* C18: right after a successful thaw_vested_balances (for every balance of
\* the ledger), a successful request_transfer (for the caller's balance) or
\* a successful approve_transfer (for the requesting address's balance),
\* each of the balance's four totals is the sum of the schedule_balance of
\* its schedules in the matching status; and a balance in this condition
\* stays in it under every later message until it is removed.
C18_TotalsMatchAfterRecalculation ==
    [][/\ (/\ Sent("thaw_vested_balances", vesting_owner)
           /\ Succeeded(vesting_owner, "VestedBalanceScheduleThawed"))
          => \A k \in 1..Len(vested_balances') : TotalsMatchSchedules(vested_balances'[k])
       /\ (/\ msg'.op = "request_transfer"
           /\ Succeeded(msg'.caller, "VestedBalanceScheduleRequested"))
          => /\ msg'.caller \in Addresses(vested_balances')
             /\ \A k \in 1..Len(vested_balances') :
                    vested_balances'[k].address = msg'.caller
                        => TotalsMatchSchedules(vested_balances'[k])
       /\ (/\ Sent("approve_transfer", vesting_owner)
           /\ Succeeded(vesting_owner, "VestedBalanceScheduleApproved"))
          => \A a \in Accounts, n \in ScheduleNumbers, h \in TxHashes :
                approve_transfer(vesting_owner, a, n, h) =>
                    /\ a \in Addresses(vested_balances')
                    /\ \A k \in 1..Len(vested_balances') :
                            vested_balances'[k].address = a
                                => TotalsMatchSchedules(vested_balances'[k])
       /\ \A i \in 1..Len(vested_balances), k \in 1..Len(vested_balances') :
            (/\ vested_balances[i].address = vested_balances'[k].address
             /\ vested_balances[i] # vested_balances'[k]
             /\ TotalsMatchSchedules(vested_balances[i]))
            => TotalsMatchSchedules(vested_balances'[k])]_vars

\* The balance of an address has just been recounted by its successful
\* request_transfer: its totals match its schedules and add up to less than
\* its original_balance, which add_vested_balance had put in frozen_balance.
C18_Witness ==
    \E i \in 1..Len(vested_balances) :
        /\ LastSent("request_transfer", vested_balances[i].address)
        /\ LastEvent(vested_balances[i].address,
                     EmitSuccess("VestedBalanceScheduleRequested"))
        /\ TotalsMatchSchedules(vested_balances[i])
        /\ vested_balances[i].requested_balance > 0
        /\ vested_balances[i].frozen_balance > 0
        /\ TotalOf(vested_balances[i]) < vested_balances[i].original_balance

\* The four totals of a balance.
Totals(vb) ==
    <<vb.frozen_balance, vb.liquid_balance, vb.requested_balance, vb.transferred_balance>>

\* C19: thaw_vested_balances(schedule_number) of the owner changes the totals
\* of the affected balances only: every balance without a Frozen schedule of
\* that number (every balance, when the number is 0 or greater than
\* total_vested_schedule) has the same frozen_balance, liquid_balance,
\* requested_balance and transferred_balance after the call as before it.
C19_ThawKeepsTheOtherTotals ==
    [][\A n \in ScheduleNumbers :
        (/\ Sent("thaw_vested_balances", vesting_owner)
         /\ thaw_vested_balances(vesting_owner, n)) =>
            /\ Len(vested_balances') = Len(vested_balances)
            /\ \A i \in 1..Len(vested_balances) :
                LET schedules == vested_balances[i].vested_balance_schedules
                IN  (\A j \in 1..Len(schedules) :
                        ~(schedules[j].schedule_number = n /\ schedules[j].status = Frozen))
                    => Totals(vested_balances'[i]) = Totals(vested_balances[i])]_vars

\* C20: request_transfer acts on the caller's own balance only: a
\* request_transfer of caller C, whatever its arguments, leaves every balance
\* of another address unchanged; so the recipient stored in a schedule of the
\* balance of address X was passed by a request_transfer that X sent: a
\* balance starts without recipients, and a step changes a recipient of X's
\* balance only if it is X's request_transfer, to the recipient it passed.
C20_OnlyTheAddressSetsItsRecipients ==
    [][/\ msg'.op = "request_transfer" =>
            /\ Len(vested_balances') = Len(vested_balances)
            /\ \A i \in 1..Len(vested_balances) :
                    vested_balances[i].address # msg'.caller
                        => vested_balances'[i] = vested_balances[i]
       /\ \A k \in 1..Len(vested_balances') :
            LET x == vested_balances'[k].address
                curs == vested_balances'[k].vested_balance_schedules
            IN  IF x \notin Addresses(vested_balances)
                THEN \A m \in 1..Len(curs) : curs[m].recipient_address = None
                ELSE \A i \in 1..Len(vested_balances) :
                        vested_balances[i].address = x =>
                            LET olds == vested_balances[i].vested_balance_schedules
                            IN  \A j \in 1..Len(olds), m \in 1..Len(curs) :
                                    (/\ curs[m].schedule_number = olds[j].schedule_number
                                     /\ curs[m].recipient_address # olds[j].recipient_address)
                                    => /\ Sent("request_transfer", x)
                                       /\ \E r \in Accounts :
                                            /\ request_transfer(x, olds[j].schedule_number, r)
                                            /\ curs[m].recipient_address = Some(r)]_vars

\* Next to the owner's balance, whose schedules are Liquid and without
\* recipient, the balance of another address has just got the owner as the
\* recipient of a schedule, by a request_transfer that address sent.
C20_Witness ==
    /\ Len(vested_balances) = 2
    /\ \E i, k \in 1..2 :
        /\ vested_balances[i].address # vesting_owner
        /\ vested_balances[k].address = vesting_owner
        /\ LastSent("request_transfer", vested_balances[i].address)
        /\ LastEvent(vested_balances[i].address,
                     EmitSuccess("VestedBalanceScheduleRequested"))
        /\ \E j \in 1..Len(vested_balances[i].vested_balance_schedules) :
                vested_balances[i].vested_balance_schedules[j].recipient_address
                    = Some(vesting_owner)
        /\ vested_balances[k].liquid_balance > 0
        /\ \A j \in 1..Len(vested_balances[k].vested_balance_schedules) :
                vested_balances[k].vested_balance_schedules[j].recipient_address = None

\* C21: while a balance exists, from the add_vested_balance that created it
\* to the remove_vested_balance or setup_vesting that removes it, its
\* original_balance and the schedule_balance of each of its schedules never
\* change, a schedule's recipient never changes once set (a repeated
\* request_transfer on a Requested or Transferred schedule does not replace
\* it), and a schedule's particulars never change once it is Transferred (a
\* repeated approve_transfer does not replace them).
C21_AmountsRecipientAndParticularsAreFixed ==
    [][\A i \in 1..Len(vested_balances), k \in 1..Len(vested_balances') :
        (/\ vested_balances[i].address = vested_balances'[k].address
         /\ vested_balances[i] # vested_balances'[k]) =>
            LET olds == vested_balances[i].vested_balance_schedules
                curs == vested_balances'[k].vested_balance_schedules
            IN  /\ vested_balances'[k].original_balance = vested_balances[i].original_balance
                /\ \A j \in 1..Len(olds) :
                    \E m \in 1..Len(curs) :
                        /\ curs[m].schedule_number = olds[j].schedule_number
                        /\ curs[m].schedule_balance = olds[j].schedule_balance
                        /\ olds[j].recipient_address # None
                                => curs[m].recipient_address = olds[j].recipient_address
                        /\ olds[j].status = Transferred
                                => curs[m].particulars = olds[j].particulars]_vars

\* A balance whose amount the schedule count does not divide has a
\* Transferred schedule with a recipient and the one-byte particulars; its
\* address requests that schedule again for the other account and the owner
\* approves it again with other particulars: both are refused and the
\* ledger stays as it is.
C21_Witness ==
    \E i \in 1..Len(vested_balances) :
        LET vb == vested_balances[i]
        IN  /\ vb.original_balance > ScheduleSum(vb.vested_balance_schedules)
            /\ \E j \in 1..Len(vb.vested_balance_schedules), r, q \in Accounts :
                LET s == vb.vested_balance_schedules[j]
                IN  /\ s.status = Transferred
                    /\ s.recipient_address = Some(r)
                    /\ s.particulars = <<171>>
                    /\ q # r
                    /\ ENABLED (/\ Call("request_transfer", vb.address,
                                        request_transfer(vb.address, s.schedule_number, q))
                                /\ Rejected(vb.address, "VestedBalanceScheduleNotLiquid"))
                    /\ ENABLED (/\ Call("approve_transfer", vesting_owner,
                                        approve_transfer(vesting_owner, vb.address,
                                                         s.schedule_number, <<>>))
                                /\ Rejected(vesting_owner, "VestedBalanceScheduleNotRequested"))
====
